---- MODULE Spec2Model ----
(***************************************************************************)
(* Model of modules/digitalocean/widget.go: the droplet list widget, its   *)
(* paginated fetch, the selection cursor and the droplet actions.          *)
(*                                                                         *)
(* A droplet record is identified by its numeric ID; the widget never      *)
(* edits a record, so a record is modelled by its ID.  The widget runs     *)
(* under a single thread of control: pc is the position of that thread,    *)
(* "idle" between two user commands.                                       *)
(***************************************************************************)
EXTENDS Integers, Sequences, FiniteSets, TLC

\* ------------------------------------------------------------------ bounds
\* droplet IDs are 1..NumIds
NumIds == 4
\* most records the API serves on one page
MaxPageLen == 2
\* most pages the API serves for one listing
MaxPages == 2

Ids == 1..NumIds

Range(s) == {s[i] : i \in 1..Len(s)}

\* The records of set S in the order the API lists them: by ascending ID.
RECURSIVE Listing(_)
Listing(S) ==
    IF S = {} THEN <<>>
    ELSE LET m == CHOOSE x \in S : \A y \in S : x <= y
         IN  <<m>> \o Listing(S \ {m})

\* The pages the API can serve after the records of list were served: at most
\* MaxPageLen records the listing has not served yet (IDs are unique and the
\* listing is ordered by ID).
PageItems(list) ==
    {Listing(S) : S \in {T \in SUBSET {i \in Ids : \A j \in Range(list) : j < i} :
                              Cardinality(T) <= MaxPageLen}}

\* ------------------------------------------------------------- error values
NoErr == "nil"
ClientErr == "client could not be initialized"
ListErr == "list error"
ParseErr == "parse error"

\* -------------------------------------------------------------------- state
VARIABLES
    client,       \* widget.client: "ok" once createClient has run, else "nil"
    droplets,     \* widget.droplets
    Selected,     \* widget.Selected, the cursor of the ScrollableWidget base
    maxItems,     \* the item count held by the ScrollableWidget base
    err,          \* widget.err
    infoPage,     \* TRUE while the "info" page is in widget.pages and has the focus
    pc,           \* position of the thread of control
    dropletList,  \* local of dropletsFetch
    optsPage,     \* opts.Page, local of dropletsFetch
    fetchErr,     \* the error Fetch returned to Refresh
    trace         \* calls made by the command in progress (or the last one)

vars == <<client, droplets, Selected, maxItems, err, infoPage, pc,
          dropletList, optsPage, fetchErr, trace>>

widgetState == <<client, droplets, Selected, maxItems, err, infoPage>>
fetchLocals == <<dropletList, optsPage, fetchErr>>

\* One entry of trace: the entry of a command or of Refresh, a call of the
\* remote client with its argument and its answer, or a call of display.
Event(op, arg, items, res) == [op |-> op, arg |-> arg, items |-> items, res |-> res]

\* ------------------------------------------------------------ pure helpers
\* currentDroplet: nil for an empty list or a cursor at or past the end,
\* else a pointer to droplets[Selected]; a negative cursor with a non-empty
\* list makes the index expression panic.
currentDroplet(d, s) ==
    IF Len(d) = 0 THEN [kind |-> "nil", index |-> s]
    ELSE IF Len(d) <= s THEN [kind |-> "nil", index |-> s]
    ELSE IF s < 0 THEN [kind |-> "panic", index |-> s]
    ELSE [kind |-> "ptr", index |-> s]

\* A faulty read: the ID of the first record, whatever the cursor.
DropletIDOfFirst(d, p) == d[1]

\* The ID read through a pointer returned by currentDroplet (Go indexes from
\* 0, TLA+ sequences from 1).
DropletID(d, p) == d[p.index + 1]

\* A faulty removal: the last slot is dropped without the swap.
dropletRemoveSelectedNoSwap(d, s) ==
    IF currentDroplet(d, s).kind = "ptr" THEN SubSeq(d, 1, Len(d) - 1) ELSE d

\* dropletRemoveSelected on list d with cursor s: swap the selected record
\* with the last one, then drop the last slot.
dropletRemoveSelected(d, s) ==
    IF currentDroplet(d, s).kind = "ptr"
    THEN LET n == Len(d)
             swapped == [d EXCEPT ![n] = d[s + 1], ![s + 1] = d[n]]
         IN  SubSeq(swapped, 1, n - 1)
    ELSE d

\* A faulty append: the new page goes in front.
AppendPageInFront(list, items) == items \o list

\* The loop body's append of one page to the accumulator.
AppendPage(list, items) == list \o items

\* A faulty loop test: links that cannot be parsed are taken for the last page.
LinksStepBadBreaks(links) ==
    IF links = "nil" \/ links = "last" \/ links = "bad" THEN "break"
    ELSE "continue"

\* A faulty loop test: nil links are not taken for the last page.
LinksStepNilGoesOn(links) ==
    IF links = "last" THEN "break"
    ELSE IF links = "bad" THEN "error"
    ELSE "continue"

\* What the loop of dropletsFetch does after appending a page, from the
\* links of the response: leave the loop at nil links or links of the last
\* page, return the parse error of CurrentPage, or go on to the next page.
LinksStep(links) ==
    IF links = "nil" \/ links = "last" THEN "break"
    ELSE IF links = "bad" THEN "error"
    ELSE "continue"

\* resp.Links.CurrentPage() for a response to a request of page p: the API
\* numbers pages from 1 and serves page 1 for an unset page.
CurrentPage(p) == IF p = 0 THEN 1 ELSE p

\* opts.Page for the next request.
NextPage(page) == page + 1

\* ScrollableWidget.SetItemCount
SetItemCount(n) == n

\* A faulty Next: the cursor wraps around to the first item.
ScrollNextWraps(s, n) == IF s + 1 > n - 1 THEN 0 ELSE s + 1

\* ScrollableWidget.Next and Prev on cursor s with n items.
ScrollNext(s, n) == IF s + 1 > n - 1 THEN n - 1 ELSE s + 1
ScrollPrev(s) == IF s - 1 < 0 THEN 0 ELSE s - 1

\* The cursor NewScrollableWidget leaves for the empty list: no item is
\* selected, which is the zero value or the "nothing selected" value -1.
InitSelected == {-1, 0}

\* -------------------------------------------------------------------- Init
\* NewWidget: the zero values of the struct fields, then createClient.
Init ==
    /\ client = "ok"
    /\ droplets = <<>>
    /\ Selected \in InitSelected
    /\ maxItems = 0
    /\ err = NoErr
    /\ infoPage = FALSE
    /\ pc = "idle"
    /\ dropletList = <<>>
    /\ optsPage = 0
    /\ fetchErr = NoErr
    /\ trace = <<>>

\* ------------------------------------------------------- navigation commands
\* The widget takes a key command when no command is running and the focus
\* is on its view: showInfo hands the focus to the modal, closeFunc returns it.
\* Commands taken while another one is running.
IdleOrRunning == pc # "panic"

\* Commands run to completion: the next one is taken when the thread of
\* control is back from the last one.
Idle == pc = "idle"

Focused == Idle /\ ~infoPage

WidgetNext ==
    /\ Focused
    /\ Selected' = ScrollNext(Selected, maxItems)
    /\ trace' = <<Event("Next", 0, <<>>, "ok")>>
    /\ UNCHANGED <<client, droplets, maxItems, err, infoPage, pc, fetchLocals>>

WidgetPrev ==
    /\ Focused
    /\ Selected' = ScrollPrev(Selected)
    /\ trace' = <<Event("Prev", 0, <<>>, "ok")>>
    /\ UNCHANGED <<client, droplets, maxItems, err, infoPage, pc, fetchLocals>>

Unselect ==
    /\ Focused
    /\ trace' = <<Event("Unselect", 0, <<>>, "ok"), Event("display", 0, <<>>, "ok")>>
    /\ UNCHANGED <<widgetState, pc, fetchLocals>>

\* ------------------------------------------------------------------ showInfo
showInfo ==
    /\ Focused
    /\ LET cur == currentDroplet(droplets, Selected) IN
         /\ pc' = IF cur.kind = "panic" THEN "panic" ELSE "idle"
         /\ infoPage' = IF cur.kind = "ptr" THEN TRUE ELSE infoPage
    /\ trace' = <<Event("showInfo", 0, <<>>, "ok")>>
    /\ UNCHANGED <<client, droplets, Selected, maxItems, err, fetchLocals>>

closeFunc ==
    /\ Idle
    /\ infoPage
    /\ infoPage' = FALSE
    /\ trace' = <<Event("closeFunc", 0, <<>>, "ok")>>
    /\ UNCHANGED <<client, droplets, Selected, maxItems, err, pc, fetchLocals>>

\* ------------------------------------------------------------ droplet actions
\* A faulty head: Refresh runs although nothing is selected.
ActionHeadRefreshesAnyway(name, op, next) ==
    /\ Focused
    /\ LET cur == currentDroplet(droplets, Selected)
           entry == Event(name, 0, <<>>, "ok")
       IN  \/ /\ cur.kind = "nil"
              /\ pc' = "Refresh"
              /\ trace' = <<entry>>
           \/ /\ cur.kind = "panic"
              /\ pc' = "panic"
              /\ trace' = <<entry>>
           \/ /\ cur.kind = "ptr"
              /\ \E res \in {"ok", "err"} :
                   trace' = <<entry, Event(op, DropletID(droplets, cur), <<>>, res)>>
              /\ pc' = next
    /\ UNCHANGED <<widgetState, fetchLocals>>

\* A faulty head: the action returns when the remote call fails.
ActionHeadReturnsOnError(name, op, next) ==
    /\ Focused
    /\ LET cur == currentDroplet(droplets, Selected)
           entry == Event(name, 0, <<>>, "ok")
       IN  \/ /\ cur.kind = "nil"
              /\ pc' = "idle"
              /\ trace' = <<entry>>
           \/ /\ cur.kind = "panic"
              /\ pc' = "panic"
              /\ trace' = <<entry>>
           \/ /\ cur.kind = "ptr"
              /\ \E res \in {"ok", "err"} :
                   /\ trace' = <<entry, Event(op, DropletID(droplets, cur), <<>>, res)>>
                   /\ pc' = IF res = "err" THEN "idle" ELSE next
    /\ UNCHANGED <<widgetState, fetchLocals>>

\* A faulty head: the error of the remote call is stored as the last error.
ActionHeadStoresError(name, op, next) ==
    /\ Focused
    /\ LET cur == currentDroplet(droplets, Selected)
           entry == Event(name, 0, <<>>, "ok")
       IN  \/ /\ cur.kind = "nil"
              /\ pc' = "idle"
              /\ trace' = <<entry>>
              /\ err' = err
           \/ /\ cur.kind = "panic"
              /\ pc' = "panic"
              /\ trace' = <<entry>>
              /\ err' = err
           \/ /\ cur.kind = "ptr"
              /\ \E res \in {"ok", "err"} :
                   /\ trace' = <<entry, Event(op, DropletID(droplets, cur), <<>>, res)>>
                   /\ err' = IF res = "err" THEN "action error" ELSE err
              /\ pc' = next
    /\ UNCHANGED <<client, droplets, Selected, maxItems, infoPage, fetchLocals>>

\* The common head of the four actions: resolve the selection; return when
\* there is none; else make the remote call op with the selected ID, whose
\* result res is dropped, and continue at position next.
ActionHead(name, op, next) ==
    /\ Focused
    /\ LET cur == currentDroplet(droplets, Selected)
           entry == Event(name, 0, <<>>, "ok")
       IN  \/ /\ cur.kind = "nil"
              /\ pc' = "idle"
              /\ trace' = <<entry>>
           \/ /\ cur.kind = "panic"
              /\ pc' = "panic"
              /\ trace' = <<entry>>
           \/ /\ cur.kind = "ptr"
              /\ \E res \in {"ok", "err"} :
                   trace' = <<entry, Event(op, DropletID(droplets, cur), <<>>, res)>>
              /\ pc' = next
    /\ UNCHANGED <<widgetState, fetchLocals>>

dropletDestroy == ActionHead("dropletDestroy", "Delete", "dropletRemoveSelected")

dropletEnabledPrivateNetworking ==
    ActionHead("dropletEnabledPrivateNetworking", "EnablePrivateNetworking", "Refresh")

dropletRestart == ActionHead("dropletRestart", "Reboot", "Refresh")

dropletShutDown == ActionHead("dropletShutDown", "Shutdown", "Refresh")

\* dropletDestroy, line 184
RemoveSelected ==
    /\ pc = "dropletRemoveSelected"
    /\ droplets' = dropletRemoveSelected(droplets, Selected)
    /\ pc' = "Refresh"
    /\ UNCHANGED <<client, Selected, maxItems, err, infoPage, fetchLocals, trace>>

\* ------------------------------------------------------------------- Refresh
\* The refresh command of the user (or of the dashboard's scheduler).
RefreshCmd ==
    /\ Focused
    /\ pc' = "Refresh"
    /\ trace' = <<>>
    /\ UNCHANGED <<widgetState, fetchLocals>>

\* Entry of Refresh and of Fetch: without a client Fetch returns its error at
\* once, else dropletsFetch starts with an empty list and unset options.
Fetch ==
    /\ pc = "Refresh"
    /\ trace' = Append(trace, Event("Refresh", 0, <<>>, "ok"))
    /\ IF client = "nil"
       THEN /\ fetchErr' = ClientErr
            /\ pc' = "RefreshUpdate"
            /\ UNCHANGED <<dropletList, optsPage>>
       ELSE /\ dropletList' = <<>>
            /\ optsPage' = 0
            /\ fetchErr' = NoErr
            /\ pc' = "dropletsFetch"
    /\ UNCHANGED widgetState

\* A faulty dropletsFetch: a List error returns no records.
dropletsFetchDropsPartial ==
    /\ pc = "dropletsFetch"
    /\ \/ /\ trace' = Append(trace, Event("List", optsPage, <<>>, "err"))
          /\ droplets' = <<>>
          /\ fetchErr' = ListErr
          /\ pc' = "RefreshUpdate"
          /\ dropletList' = <<>>
          /\ optsPage' = 0
       \/ \E items \in PageItems(dropletList), links \in {"nil", "last", "next", "bad"} :
            /\ links = "next" => CurrentPage(optsPage) < MaxPages
            /\ trace' = Append(trace, Event("List", optsPage, items, links))
            /\ LET list == AppendPage(dropletList, items) IN
                 CASE LinksStep(links) = "break" ->
                      /\ droplets' = list
                      /\ fetchErr' = NoErr
                      /\ pc' = "RefreshUpdate"
                      /\ dropletList' = <<>>
                      /\ optsPage' = 0
                 [] LinksStep(links) = "error" ->
                      /\ droplets' = list
                      /\ fetchErr' = ParseErr
                      /\ pc' = "RefreshUpdate"
                      /\ dropletList' = <<>>
                      /\ optsPage' = 0
                 [] LinksStep(links) = "continue" ->
                      /\ dropletList' = list
                      /\ optsPage' = NextPage(CurrentPage(optsPage))
                      /\ pc' = "dropletsFetch"
                      /\ UNCHANGED <<droplets, fetchErr>>
    /\ UNCHANGED <<client, Selected, maxItems, err, infoPage>>

\* One iteration of the loop of dropletsFetch (the locals are dropped when
\* the function returns).  The remote client answers the
\* request for page optsPage with an error, or with a page of records and
\* links that are nil, report the last page, report a further page, or
\* cannot be parsed.  When the loop ends, dropletsFetch returns and Fetch
\* assigns the returned list to widget.droplets.
dropletsFetch ==
    /\ pc = "dropletsFetch"
    /\ \/ /\ trace' = Append(trace, Event("List", optsPage, <<>>, "err"))
          /\ droplets' = dropletList
          /\ fetchErr' = ListErr
          /\ pc' = "RefreshUpdate"
          /\ dropletList' = <<>>
          /\ optsPage' = 0
       \/ \E items \in PageItems(dropletList), links \in {"nil", "last", "next", "bad"} :
            /\ links = "next" => CurrentPage(optsPage) < MaxPages
            /\ trace' = Append(trace, Event("List", optsPage, items, links))
            /\ LET list == AppendPage(dropletList, items) IN
                 CASE LinksStep(links) = "break" ->
                      /\ droplets' = list
                      /\ fetchErr' = NoErr
                      /\ pc' = "RefreshUpdate"
                      /\ dropletList' = <<>>
                      /\ optsPage' = 0
                 [] LinksStep(links) = "error" ->
                      /\ droplets' = list
                      /\ fetchErr' = ParseErr
                      /\ pc' = "RefreshUpdate"
                      /\ dropletList' = <<>>
                      /\ optsPage' = 0
                 [] LinksStep(links) = "continue" ->
                      /\ dropletList' = list
                      /\ optsPage' = NextPage(CurrentPage(optsPage))
                      /\ pc' = "dropletsFetch"
                      /\ UNCHANGED <<droplets, fetchErr>>
    /\ UNCHANGED <<client, Selected, maxItems, err, infoPage>>

\* A faulty Refresh: a failure leaves the item count as it was.
RefreshUpdateKeepsCount ==
    /\ pc = "RefreshUpdate"
    /\ IF fetchErr # NoErr
       THEN /\ err' = fetchErr
            /\ maxItems' = maxItems
       ELSE /\ err' = NoErr
            /\ maxItems' = SetItemCount(Len(droplets))
    /\ fetchErr' = NoErr
    /\ pc' = "display"
    /\ UNCHANGED <<client, droplets, Selected, infoPage, dropletList, optsPage, trace>>

\* A faulty Refresh: display is called before the state is updated.
RefreshUpdateAfterDisplay ==
    /\ pc = "RefreshUpdate"
    /\ trace' = Append(trace, Event("display", 0, <<>>, "ok"))
    /\ IF fetchErr # NoErr
       THEN /\ err' = fetchErr
            /\ maxItems' = SetItemCount(0)
       ELSE /\ err' = NoErr
            /\ maxItems' = SetItemCount(Len(droplets))
    /\ fetchErr' = NoErr
    /\ pc' = "idle"
    /\ UNCHANGED <<client, droplets, Selected, infoPage, dropletList, optsPage>>

\* A faulty Refresh: a failure is not stored as the last error.
RefreshUpdateDropsErr ==
    /\ pc = "RefreshUpdate"
    /\ IF fetchErr # NoErr
       THEN /\ err' = err
            /\ maxItems' = SetItemCount(0)
       ELSE /\ err' = NoErr
            /\ maxItems' = SetItemCount(Len(droplets))
    /\ fetchErr' = NoErr
    /\ pc' = "display"
    /\ UNCHANGED <<client, droplets, Selected, infoPage, dropletList, optsPage, trace>>

\* A faulty Refresh: a success does not clear the last error.
RefreshUpdateKeepsErr ==
    /\ pc = "RefreshUpdate"
    /\ IF fetchErr # NoErr
       THEN /\ err' = fetchErr
            /\ maxItems' = SetItemCount(0)
       ELSE /\ err' = err
            /\ maxItems' = SetItemCount(Len(droplets))
    /\ fetchErr' = NoErr
    /\ pc' = "display"
    /\ UNCHANGED <<client, droplets, Selected, infoPage, dropletList, optsPage, trace>>

\* Refresh, lines 99-105
RefreshUpdate ==
    /\ pc = "RefreshUpdate"
    /\ IF fetchErr # NoErr
       THEN /\ err' = fetchErr
            /\ maxItems' = SetItemCount(0)
       ELSE /\ err' = NoErr
            /\ maxItems' = SetItemCount(Len(droplets))
    /\ fetchErr' = NoErr
    /\ pc' = "display"
    /\ UNCHANGED <<client, droplets, Selected, infoPage, dropletList, optsPage, trace>>

\* Refresh, line 107
RefreshDisplay ==
    /\ pc = "display"
    /\ trace' = Append(trace, Event("display", 0, <<>>, "ok"))
    /\ pc' = "idle"
    /\ UNCHANGED <<widgetState, fetchLocals>>

\* --------------------------------------------------------------------- Next
Next ==
    \/ WidgetNext
    \/ WidgetPrev
    \/ Unselect
    \/ showInfo
    \/ closeFunc
    \/ dropletDestroy
    \/ dropletEnabledPrivateNetworking
    \/ dropletRestart
    \/ dropletShutDown
    \/ RemoveSelected
    \/ RefreshCmd
    \/ Fetch
    \/ dropletsFetch
    \/ RefreshUpdate
    \/ RefreshDisplay

Spec == Init /\ [][Next]_vars

\* The commands that run Refresh, alone: the refresh command and the two
\* actions that differ before Refresh (destroy removes, restart does not).
RefreshNext ==
    \/ RefreshCmd
    \/ dropletDestroy
    \/ dropletRestart
    \/ RemoveSelected
    \/ Fetch
    \/ dropletsFetch
    \/ RefreshUpdate
    \/ RefreshDisplay

\* The thread of control runs on: a command that has started is carried
\* through, every call of the remote client returns.
FairSpec ==
    /\ Init /\ [][RefreshNext]_vars
    /\ WF_vars(RemoveSelected \/ Fetch \/ dropletsFetch \/ RefreshUpdate \/ RefreshDisplay)

\* ------------------------------------------------------ reading the trace
\* The positions of the List calls in trace, and the number of List calls
\* made up to position i.
ListCalls == {i \in 1..Len(trace) : trace[i].op = "List"}
ListOrdinal(i) == Cardinality({j \in ListCalls : j <= i})

\* The answer to the last List call ("none" before the first call).
LastListRes ==
    IF ListCalls = {} THEN "none"
    ELSE trace[CHOOSE i \in ListCalls : \A j \in ListCalls : j <= i].res

\* The records of the pages served to the List calls of tr, in call order.
RECURSIVE ServedPages(_)
ServedPages(tr) ==
    IF tr = <<>> THEN <<>>
    ELSE (IF Head(tr).op = "List" THEN Head(tr).items ELSE <<>>) \o ServedPages(Tail(tr))

\* The last command ran Refresh and Refresh has returned.
RefreshReturned == pc = "idle" /\ \E i \in 1..Len(trace) : trace[i].op = "Refresh"

\* dropletsFetch has returned to Fetch, and Fetch to Refresh.
FetchReturned == pc = "RefreshUpdate"

\* ------------------------------------------------------------------ claims
\* C1: between commands and at the return of dropletRemoveSelected, the
\* cursor is below the length of a non-empty collection.
C1_CursorWithinCollection ==
    pc \in {"idle", "Refresh"} => (Len(droplets) > 0 => Selected < Len(droplets))

\* C2: when a Refresh whose fetch failed returns, the collection is empty, the
\* item count is 0 and the last error is the error met.
C2_FailedRefreshClears ==
    (RefreshReturned /\ LastListRes \in {"err", "bad"}) =>
        /\ droplets = <<>>
        /\ maxItems = 0
        /\ err = (IF LastListRes = "err" THEN ListErr ELSE ParseErr)

\* C3: when a Refresh whose fetch succeeded returns, the collection is the
\* fetched sequence, the item count is its length and the last error is nil.
C3_SuccessfulRefreshReplaces ==
    (RefreshReturned /\ LastListRes \in {"nil", "last"}) =>
        /\ droplets = ServedPages(trace)
        /\ maxItems = Len(ServedPages(trace))
        /\ err = NoErr

\* A successful Refresh of two non-empty pages, run by a destroy on a
\* collection that was not empty.
C3_Witness ==
    /\ RefreshReturned
    /\ LastListRes \in {"nil", "last"}
    /\ trace[1].op = "dropletDestroy"
    /\ Cardinality(ListCalls) = 2
    /\ \A i \in ListCalls : trace[i].items # <<>>
    /\ droplets # <<>>

\* C4: when every page is served without error and every page but the last
\* reports a further page, dropletsFetch asks for the pages in order and
\* returns their concatenation in arrival order, and no error.
C4_PaginationComplete ==
    (/\ FetchReturned
     /\ ListCalls # {}
     /\ \A i \in ListCalls :
          IF \E j \in ListCalls : j > i
          THEN trace[i].res = "next"
          ELSE trace[i].res \in {"nil", "last"})
    => /\ droplets = ServedPages(trace)
       /\ fetchErr = NoErr
       /\ \A i \in ListCalls : CurrentPage(trace[i].arg) = ListOrdinal(i)

\* dropletsFetch has returned after two non-empty pages.
C4_Witness ==
    /\ FetchReturned
    /\ fetchErr = NoErr
    /\ Cardinality(ListCalls) = 2
    /\ \A i \in ListCalls : trace[i].items # <<>>
    /\ Len(droplets) >= 3

\* C5: a response with nil links or links of the last page ends the listing:
\* no List call follows it, the loop is left and dropletsFetch returns no
\* error; when it is the first response, one List call was made.
C5_EarlyStop ==
    \A i \in ListCalls :
        trace[i].res \in {"nil", "last"} =>
            /\ \A j \in ListCalls : j <= i
            /\ pc # "dropletsFetch"
            /\ FetchReturned => fetchErr = NoErr
            /\ ListOrdinal(i) = 1 => Cardinality(ListCalls) = 1

\* dropletsFetch has returned after one List call answered with nil links,
\* while the account holds droplets that were not served.
C5_Witness ==
    /\ FetchReturned
    /\ Cardinality(ListCalls) = 1
    /\ LastListRes = "nil"
    /\ fetchErr = NoErr
    /\ droplets # <<>>
    /\ Len(droplets) < NumIds

\* C6: dropletRemoveSelected with the cursor i on one of n records leaves
\* n - 1 records: the record that was last in slot i (when i was not the last
\* slot), every other remaining slot as it was, the record that was at i
\* gone, and the cursor unchanged.
C6_SwapRemove ==
    [][(pc = "dropletRemoveSelected" /\ pc' = "Refresh") =>
          LET n == Len(droplets)
              i == Selected
          IN  /\ 0 <= i /\ i < n
              /\ Len(droplets') = n - 1
              /\ i < n - 1 => droplets'[i + 1] = droplets[n]
              /\ \A j \in 0..(n - 2) : j # i => droplets'[j + 1] = droplets[j + 1]
              /\ Range(droplets') = Range(droplets) \ {droplets[i + 1]}
              /\ Selected' = i]_vars

\* The destroy of record 2 at cursor 1 of <<1, 2, 3, 4>> has removed it.
C6_Witness ==
    /\ pc = "Refresh"
    /\ Len(trace) = 2
    /\ trace[2].op = "Delete"
    /\ trace[2].arg = 2
    /\ Selected = 1
    /\ droplets = <<1, 4, 3>>

\* C7: currentDroplet returns nil for an empty collection or a cursor at or
\* past its end, else the record at the cursor, and reads no slot at or past
\* the end.
C7_CurrentDroplet ==
    LET cur == currentDroplet(droplets, Selected)
    IN  /\ (Len(droplets) = 0 \/ Selected >= Len(droplets)) => cur.kind = "nil"
        /\ ~(Len(droplets) = 0 \/ Selected >= Len(droplets)) =>
              /\ cur.kind = "ptr"
              /\ DropletID(droplets, cur) = droplets[Selected + 1]
        /\ cur.kind # "nil" => cur.index < Len(droplets)

\* C8: Next never leaves the cursor at or past the length of the collection
\* and moves it up by one while there is room; Prev never leaves it below
\* zero and moves it down by one while there is room.
C8_SelectionClamp ==
    [][/\ WidgetNext =>
            /\ Selected' < Len(droplets)
            /\ Selected + 1 < maxItems => Selected' = Selected + 1
       /\ WidgetPrev =>
            /\ Selected' >= 0
            /\ Selected >= 1 => Selected' = Selected - 1]_vars

\* Next has run with the cursor on the last of several records, and the
\* cursor is still on it.
C8_Witness ==
    /\ pc = "idle"
    /\ trace # <<>>
    /\ trace[1].op = "Next"
    /\ Len(droplets) >= 2
    /\ maxItems = Len(droplets)
    /\ Selected = Len(droplets) - 1

\* C9: when currentDroplet returns no record, each of the four actions and
\* showInfo makes no call of the remote client and runs no Refresh, and the
\* collection, the cursor, the item count and the last error stay as they
\* are; when it returns nil the command returns at once.
C9_NoSelectionNoOp ==
    [][(/\ Focused
        /\ currentDroplet(droplets, Selected).kind # "ptr"
        /\ \/ dropletDestroy
           \/ dropletRestart
           \/ dropletShutDown
           \/ dropletEnabledPrivateNetworking
           \/ showInfo)
       => /\ UNCHANGED <<droplets, Selected, maxItems, err, infoPage>>
          /\ Len(trace') = 1
          /\ pc' \in {"idle", "panic"}
          /\ currentDroplet(droplets, Selected).kind = "nil" => pc' = "idle"]_vars

\* dropletDestroy has returned at once with the cursor past the end of a
\* collection that is not empty.
C9_Witness ==
    /\ pc = "idle"
    /\ Len(trace) = 1
    /\ trace[1].op = "dropletDestroy"
    /\ Len(droplets) > 0
    /\ Selected >= Len(droplets)

\* The calls of the remote client that the four actions make.
ActionCalls == {"Delete", "Reboot", "Shutdown", "EnablePrivateNetworking"}
RefreshEntries == {i \in 1..Len(trace) : trace[i].op = "Refresh"}

\* C10: an action that has made its remote call, whatever the answer, runs
\* Refresh once, after the call and as its last step: it returns only after
\* that Refresh, and nothing but the fetch and the display of that Refresh
\* follows the entry of Refresh.
C10_ActionThenOneRefresh ==
    \A i \in 1..Len(trace) :
        trace[i].op \in ActionCalls =>
            /\ pc # "panic"
            /\ Cardinality(RefreshEntries) <= 1
            /\ \A r \in RefreshEntries :
                 /\ r > i
                 /\ \A k \in (r + 1)..Len(trace) : trace[k].op \in {"List", "display"}
            /\ pc = "idle" =>
                 /\ Cardinality(RefreshEntries) = 1
                 /\ trace[Len(trace)].op = "display"

\* A reboot whose remote call failed has returned after its Refresh.
C10_Witness ==
    /\ pc = "idle"
    /\ Len(trace) >= 2
    /\ trace[2].op = "Reboot"
    /\ trace[2].res = "err"
    /\ RefreshEntries # {}

\* The error the listing of the Refresh in trace ended with.
FetchOutcomeErr ==
    IF LastListRes = "err" THEN ListErr
    ELSE IF LastListRes = "bad" THEN ParseErr
    ELSE NoErr

\* The calls of the remote client made by the action in trace.
ActionCallsMade == {i \in 1..Len(trace) : trace[i].op \in ActionCalls}

\* C11: the answer of the remote call of an action never reaches the last
\* error: the head of an action and the local removal leave it as it is, a
\* failed delete is still followed by the removal and by Refresh, and when
\* the action returns the last error is the error of its Refresh's listing,
\* nil when the listing succeeded.
C11_ActionErrorsDiscarded ==
    [][/\ (pc = "idle" /\ pc' # "idle") => err' = err
       /\ pc = "dropletRemoveSelected" =>
            /\ err' = err
            /\ pc' = "Refresh"
            /\ Len(droplets') = Len(droplets) - 1
       /\ (pc = "idle" /\ Len(trace') = 2 /\ trace'[2].op = "Delete") =>
            pc' = "dropletRemoveSelected"
       /\ (pc = "Refresh" /\ ActionCallsMade # {}) => (err' = err /\ pc' # "idle")
       /\ (pc = "display" /\ pc' = "idle" /\ ActionCallsMade # {}) =>
            err' = FetchOutcomeErr]_vars

\* A destroy whose delete failed has returned after a Refresh that
\* succeeded: the last error is nil.
C11_Witness ==
    /\ pc = "idle"
    /\ Len(trace) >= 2
    /\ trace[2].op = "Delete"
    /\ trace[2].res = "err"
    /\ RefreshEntries # {}
    /\ LastListRes \in {"nil", "last"}
    /\ err = NoErr

\* C12: a destroy with a record selected calls Delete with its ID and then
\* runs Refresh; when that Refresh succeeds with M droplets the collection is
\* the fetched list, the item count is M, and the cursor is in [0, M) when
\* M > 0.
C12_DestroyThenRefresh ==
    (/\ RefreshReturned
     /\ trace[1].op = "dropletDestroy"
     /\ LastListRes \in {"nil", "last"})
    => /\ trace[2].op = "Delete"
       /\ \A r \in RefreshEntries : r > 2
       /\ droplets = ServedPages(trace)
       /\ maxItems = Len(ServedPages(trace))
       /\ Len(droplets) > 0 => (0 <= Selected /\ Selected < Len(droplets))

\* C13: the last error is nil at the start, changes only when Refresh stores
\* the outcome of its fetch, and is then non-nil exactly when that fetch
\* failed; a failed fetch leaves item count 0 with an error, a fetch of zero
\* droplets item count 0 with no error.
C13_LastErrorTracksRefresh ==
    /\ err = NoErr
    /\ [][/\ pc # "RefreshUpdate" => err' = err
          /\ pc = "RefreshUpdate" =>
               /\ err' = FetchOutcomeErr
               /\ (err' # NoErr) <=> (LastListRes \in {"err", "bad"})
               /\ LastListRes \in {"err", "bad"} => maxItems' = 0
               /\ (LastListRes \in {"nil", "last"} /\ ServedPages(trace) = <<>>) =>
                    (maxItems' = 0 /\ err' = NoErr)]_vars

\* A Refresh run by a destroy has fetched zero droplets: no error, count 0.
C13_Witness ==
    /\ RefreshReturned
    /\ trace[1].op = "dropletDestroy"
    /\ LastListRes \in {"nil", "last"}
    /\ ServedPages(trace) = <<>>
    /\ err = NoErr
    /\ maxItems = 0

\* C14: links that cannot be parsed end the listing at once: no List call
\* follows, dropletsFetch returns the parse error, and Refresh stores it as
\* the last error with item count 0.
C14_ParseErrorAborts ==
    \A i \in ListCalls :
        trace[i].res = "bad" =>
            /\ \A j \in ListCalls : j <= i
            /\ pc # "dropletsFetch"
            /\ FetchReturned => fetchErr = ParseErr
            /\ pc \in {"display", "idle"} => (err = ParseErr /\ maxItems = 0)

\* A Refresh has returned after the links of its second page could not be
\* parsed.
C14_Witness ==
    /\ RefreshReturned
    /\ Cardinality(ListCalls) = 2
    /\ LastListRes = "bad"
    /\ err = ParseErr
    /\ maxItems = 0

\* The states of the cycle of Refresh: Fetching while dropletsFetch runs,
\* Ready or Failed from the return of Fetch to the return of display.
Fetching == pc = "dropletsFetch"
ReadyOrFailed == pc \in {"RefreshUpdate", "display"}
DisplayCalls == {i \in 1..Len(trace) : trace[i].op = "display"}

\* C15: a Refresh goes from its entry to Fetching, from Fetching to Ready or
\* Failed only, and from there back to idle only; a Refresh that is Fetching,
\* Ready or Failed comes back to idle; display is called once per Refresh, as
\* its last step, with the item count and the last error already updated.
C15_RefreshCycle ==
    /\ [][/\ pc = "Refresh" => pc' = "dropletsFetch"
          /\ Fetching => (pc' = "dropletsFetch" \/ pc' = "RefreshUpdate")
          /\ pc = "RefreshUpdate" => (pc' = "display" /\ trace' = trace)
          /\ pc = "display" =>
               /\ pc' = "idle"
               /\ trace' = Append(trace, Event("display", 0, <<>>, "ok"))
               /\ UNCHANGED <<droplets, maxItems, err>>
               /\ err = FetchOutcomeErr
               /\ maxItems = (IF err # NoErr THEN 0 ELSE Len(droplets))
          /\ (RefreshEntries # {} /\ Cardinality(DisplayCalls) = 0 /\ pc' = "idle") =>
               pc = "display"]_vars
    /\ [](RefreshReturned => Cardinality(DisplayCalls) = 1)
    /\ ((Fetching \/ ReadyOrFailed) ~> pc = "idle")

\* A Refresh of two pages has gone through the cycle and has returned.
C15_Witness ==
    /\ RefreshReturned
    /\ Cardinality(ListCalls) = 2
    /\ Cardinality(DisplayCalls) = 1
    /\ trace[Len(trace)].op = "display"

\* The names of the four actions with the remote call each one makes.
ActionCallOf ==
    [dropletDestroy |-> "Delete",
     dropletRestart |-> "Reboot",
     dropletShutDown |-> "Shutdown",
     dropletEnabledPrivateNetworking |-> "EnablePrivateNetworking"]

\* C16: an action taken with a record selected makes one remote call, of its
\* own kind, with the ID of the record at the cursor; restart, shutdown and
\* enable-private-networking then go to Refresh with the collection and the
\* cursor as they were; no second remote call follows, and the call comes
\* before the Refresh.
C16_ActionTargetsSelected ==
    /\ [][(/\ pc = "idle"
           /\ trace' # <<>>
           /\ trace'[1].op \in DOMAIN ActionCallOf
           /\ trace' # trace
           /\ currentDroplet(droplets, Selected).kind = "ptr")
          => /\ Len(trace') = 2
             /\ trace'[2].op = ActionCallOf[trace'[1].op]
             /\ trace'[2].arg = droplets[Selected + 1]
             /\ UNCHANGED <<droplets, Selected>>
             /\ pc' = (IF trace'[1].op = "dropletDestroy"
                       THEN "dropletRemoveSelected" ELSE "Refresh")]_vars
    /\ [](/\ Cardinality(ActionCallsMade) <= 1
          /\ \A i \in ActionCallsMade : \A r \in RefreshEntries : i < r
          /\ (RefreshEntries # {} /\ trace[1].op \in DOMAIN ActionCallOf) =>
                ActionCallsMade = {2})

\* A shutdown with the cursor on the third record has made its call with
\* that record's ID and is about to run Refresh.
C16_Witness ==
    /\ pc = "Refresh"
    /\ Len(trace) = 2
    /\ trace[1].op = "dropletShutDown"
    /\ trace[2].op = "Shutdown"
    /\ Selected = 2
    /\ trace[2].arg = droplets[3]

\* C17: when a List call fails, dropletsFetch returns the List error with
\* the records of the pages served before it, and makes no further List call.
C17_PartialResultOnError ==
    /\ \A i \in ListCalls : trace[i].res = "err" => \A j \in ListCalls : j <= i
    /\ (FetchReturned /\ LastListRes = "err") =>
          /\ fetchErr = ListErr
          /\ droplets = ServedPages(trace)

\* dropletsFetch has returned the records of page 1 with the error of the
\* List call for page 2.
C17_Witness ==
    /\ FetchReturned
    /\ LastListRes = "err"
    /\ Cardinality(ListCalls) = 2
    /\ fetchErr = ListErr
    /\ droplets # <<>>

\* C18: between commands, either the last error is nil and the item count is
\* the length of the collection, or the last error is set and the item count
\* is 0; the item count is never above the length of the collection.
C18_QuiescentConsistency ==
    pc = "idle" =>
        /\ \/ (err = NoErr /\ maxItems = Len(droplets))
           \/ (err # NoErr /\ maxItems = 0)
        /\ maxItems <= Len(droplets)

\* A destroy has returned after a failed Refresh that kept records: the
\* error is set and the item count is 0.
C18_Witness ==
    /\ RefreshReturned
    /\ trace[1].op = "dropletDestroy"
    /\ err # NoErr
    /\ maxItems = 0
    /\ droplets # <<>>

\* C19: for every cursor, currentDroplet reads no slot outside the
\* collection; with a negative cursor it returns nil and no command panics.
C19_BoundsSafeForEveryCursor ==
    LET cur == currentDroplet(droplets, Selected)
    IN  /\ cur.kind # "nil" => (0 <= cur.index /\ cur.index < Len(droplets))
        /\ Selected < 0 => cur.kind = "nil"
        /\ pc # "panic"

====
